---- MODULE Spec2Model ----
(***************************************************************************)
(* PocketExpense: the offline expense queue of the mobile client           *)
(* (saveOfflineExpense / getOfflineExpenses / syncOfflineExpenses), the    *)
(* addExpense flow of ExpenseProvider that feeds it, the login effect that *)
(* starts a drain, and the remote create endpoint as seen by the client.   *)
(*                                                                         *)
(* Every await of the source is a step boundary: a call is a small         *)
(* process whose position (pc) is the await it is suspended on.  The       *)
(* outcome of a remote request and of a durable-store read or write is an  *)
(* input chosen when the awaited promise settles.                          *)
(*                                                                         *)
(* Further specifications over the same variables follow the submit        *)
(* button of AddExpenseScreen (FormSpec), the list request of the home     *)
(* screen (ListSpec), two accounts on one device (SwitchSpec), the budget  *)
(* warning of the create route (BudgetSpec, AlertSpec) and the budget and  *)
(* expense routes over their collections (BudgetDbSpec, ExpenseDbSpec).    *)
(***************************************************************************)
EXTENDS Integers, Sequences, FiniteSets, TLC

\* ------------------------------------------------------------- bounds ---
MaxSubmits == 2         \* submissions of the Add Expense form in one run
MaxClock   == 2         \* distinct Date.now() readings in one run
MaxServer  == 2         \* create requests the server accepts in one run
MaxLogins  == 2         \* logins in one run
MaxRoundTrips == 1      \* submissions in one run of RoundTripSpec
MaxAlerts  == 2         \* validation alerts in one run of FormSpec
MaxBudget  == 40        \* largest budget ceiling, in whole currency units
MaxSpend   == 45        \* largest month total, in whole currency units
MaxAmount  == 3         \* largest amount of one expense in BudgetSpec
MaxPresses == 4         \* presses of the submit button in one run of FormSpec
MaxDocs    == 2         \* documents inserted into a collection in one run

AddCalls  == {"a1", "a2"}     \* addExpense calls that may be in flight
SyncCalls == {"s1", "s2"}     \* syncOfflineExpenses calls that may be in flight
Users     == {"A"}
None      == "none"

\* A JavaScript number: a finite value, +Infinity or NaN; Null is the JSON
\* null a number can turn into.  v is the value of a finite number.
Num(v) == [kind |-> "finite", v |-> v]
PosInf == [kind |-> "inf", v |-> 0]
NaN    == [kind |-> "nan", v |-> 0]
Null   == [kind |-> "null", v |-> 0]

\* formData of handleSubmit: the five fields passed to addExpense
FormData(amountNum, category, paymentMethod, description, date) ==
    [amount |-> amountNum, category |-> category,
     paymentMethod |-> paymentMethod, description |-> description,
     date |-> date]

\* drafts submitted in Spec: one amount, the form's default category and
\* payment method, no description
Amounts == {10}
Drafts  == {FormData(Num(amt), "Food", "Cash", "", "2024-01-15") :
               amt \in Amounts}

\* drafts submitted in RoundTripSpec: what the form can hold, with a
\* non-finite amount (parseFloat("Infinity") passes the form's validation)
\* and an empty and a non-empty description
FormDrafts ==
    {FormData(n, c, "Cash", txt, "2024-01-15") :
        n \in {Num(amt) : amt \in Amounts} \cup {PosInf},
        c \in {"Food", "Other"}, txt \in {"", "tea"}}

VARIABLES
    store,          \* AsyncStorage[OFFLINE_EXPENSES_KEY], parsed: the durable queue
    server,         \* create requests accepted by POST /expenses, in order
    token,          \* AsyncStorage['token']
    user,           \* AuthProvider state `user`
    now,            \* Date.now()
    offlineExpenses,\* ExpenseProvider state `offlineExpenses`
    expenses,       \* ExpenseProvider state `expenses`: server _ids, newest first
    loadExp,        \* loadExpenses call of the login effect pending
    add,            \* addExpense calls
    sync,           \* syncOfflineExpenses calls
    loadOff,        \* loadOfflineExpenses call of the login effect pending
    nextUid,        \* history: serial number of the next submitted draft
    logins,         \* history: logins so far
    acked,          \* history: drafts for which addExpense returned success
    saved,          \* history: drafts for which saveOfflineExpense returned, in
                    \* order, recorded until a drain request first succeeds
    everSynced,     \* history: some drain request has succeeded
    overlapped,     \* history: some call started while another was in progress
    pendingSync,    \* history: connectivity came back with a non-empty queue and
                    \* no drain has been started or has read the queue since
    submitted,      \* history: the drafts passed to addExpense, by serial number
    amount,         \* AddExpenseScreen state `amount`: the text of the field,
                    \* a sequence of characters
    alerts,         \* validation alerts shown by handleSubmit so far
    got,            \* the last call of getOfflineExpenses on its own: whether
                    \* it was made, whether the read succeeded, what it returned
    budget,         \* server: the user's Budget document of the month, if any
    spending,       \* server: sum of the user's expenses dated in the month
    warning,        \* server: budgetWarning of the last 201 reply
    isSubmitting,   \* AddExpenseScreen isSubmittingRef.current
    presses,        \* history: presses of the submit button so far
    notifications,  \* the arguments of the addNotification calls, in order
    authors,        \* history: who was logged in when each draft was submitted
    loadReply,      \* the answer to GET /expenses on its way to loadExpenses
    budgets,        \* server: the Budget collection
    expenseDocs,    \* server: the Expense collection
    nextId,         \* server: serial number of the next _id
    request,        \* server: the last request a route has handled
    reply,          \* server: the answer to it
    upsert          \* server: a budget upsert that matched no record and
                    \*   has not inserted yet

vars == <<store, server, token, user, now, offlineExpenses, expenses, loadExp,
          add, sync,
          loadOff, nextUid, logins, acked, saved, everSynced, overlapped,
          pendingSync, submitted, amount, alerts, got,
          budget, spending, warning,
          isSubmitting, presses, notifications, authors, loadReply,
          budgets, expenseDocs, nextId, request, reply, upsert>>

\* state of the screens, of the server's budget evaluation and of the
\* list request, which most steps leave alone
auxVars == <<alerts, got, budget, spending, warning,
             isSubmitting, presses, notifications, authors, loadReply,
             budgets, expenseDocs, nextId, request, reply, upsert>>

\* the server's collections and the last exchange with its routes
dbVars == <<budgets, expenseDocs, nextId, request, reply, upsert>>

\* the variables of the client and of its view of the create endpoint
clientVars == <<store, server, token, user, now, offlineExpenses, expenses,
                loadExp, add, sync, loadOff, nextUid, logins, acked, saved,
                everSynced, overlapped, pendingSync, submitted>>

\* everything but the server's collections
appVars == <<clientVars, amount, alerts, got, budget, spending, warning,
             isSubmitting, presses, notifications, authors, loadReply>>

\* ------------------------------------------------------------ helpers ---
Range(s) == {s[k] : k \in 1..Len(s)}

\* OfflineExpense built by saveOfflineExpense: {...expenseData, _id:
\* `offline_${Date.now()}`, userId: '', isOffline: true}; id stands for _id.
\* uid is a history field: which submission the entry came from.
OfflineEntry(draft, uid, clock) ==
    [f \in DOMAIN draft \cup {"id", "userId", "isOffline", "uid"} |->
        CASE f = "id"        -> <<"offline_", clock>>
          [] f = "userId"    -> ""
          [] f = "isOffline" -> TRUE
          [] f = "uid"       -> uid
          [] OTHER           -> draft[f]]

\* faulty variant of Payload: userId is not taken out of the entry
PayloadWithUserId(entry) ==
    [f \in DOMAIN entry \ {"isOffline", "id", "uid"} |-> entry[f]]

\* const { isOffline, _id, userId, ...expenseData } = expense: the body of
\* the drain's create request (the history field is no part of it)
Payload(entry) ==
    [f \in DOMAIN entry \ {"isOffline", "id", "userId", "uid"} |-> entry[f]]

\* JSON.stringify of a number: a non-finite number is written as null
JSONNumber(n) == IF n.kind \in {"inf", "nan"} THEN Null ELSE n

\* JSON.stringify of an object with an amount: strings and booleans are
\* written as they are; the value read back by JSON.parse is the value
\* written
JSONObject(o) ==
    [f \in DOMAIN o |-> IF f = "amount" THEN JSONNumber(o[f]) ELSE o[f]]

\* JSON.stringify(list), as stored under OFFLINE_EXPENSES_KEY
JSONStringify(list) == [k \in 1..Len(list) |-> JSONObject(list[k])]

\* faulty variant of SetItem: the value is replaced although the write fails
SetItemAnyway(old, new, writeOk) == new

\* await AsyncStorage.setItem(OFFLINE_EXPENSES_KEY, new): the stored value
\* after the promise settles; a rejected write leaves the old value
SetItem(old, new, writeOk) == IF writeOk THEN new ELSE old

\* faulty variant of GetOfflineExpenses: the list is returned newest first
GetOfflineExpensesReversed(readOk) ==
    IF readOk THEN [k \in 1..Len(store) |-> store[Len(store) + 1 - k]]
    ELSE <<>>

\* getOfflineExpenses: the parsed stored list, or [] when nothing is
\* stored or the read throws (a store never written reads as <<>>).
GetOfflineExpenses(readOk) == IF readOk THEN store ELSE <<>>

\* offlineExpenses.filter(exp => !syncedIds.includes(exp._id))
Remaining(list, syncedIds) ==
    SelectSeq(list, LAMBDA e : e.id \notin Range(syncedIds))

\* What the client can observe of one POST /expenses:
\*   ok       201, the expense is stored and the reply arrives
\*   network  the server is not reached (the error has no response)
\*   rejected the server answers 4xx/5xx other than 401
\*   unauth   the server answers 401 (the request carries no token)
PostOutcomes(tok) ==
    IF tok = None THEN {"unauth", "network"}
    ELSE {"ok", "rejected", "network"}

\* What addExpense can observe of its POST /expenses: the above, or
\*   badBody  a 2xx answer whose body holds no expense with an _id (the
\*            answer does not come from the create route; nothing is stored)
AddOutcomes(tok) == PostOutcomes(tok) \cup {"badBody"}

Accepted(outcome) == outcome = "ok"

\* faulty variant of CaughtWithoutResponse: every failure is queued
CaughtAnyError(outcome) == outcome # "ok"

\* the catch block of addExpense sees an error without `response`: a
\* network error, or the Error thrown for a bad body
CaughtWithoutResponse(outcome) == outcome \in {"network", "badBody"}

\* !amount of the create route: null, NaN and 0 are falsy
Falsy(n) == n.kind \in {"null", "nan"} \/ (n.kind = "finite" /\ n.v = 0)

\* the create route answers 201 only to a body with an amount, a category
\* and a payment method
Validates(body) ==
    ~Falsy(body.amount) /\ body.category # "" /\ body.paymentMethod # ""

\* Expense.create on the server: the record is linked to the token's user.
ServerCreate(draft, uid, tok, via) ==
    Append(server, [d |-> draft, uid |-> uid, owner |-> tok, via |-> via])

\* The _id of a stored expense is its position in `server`; createdAt
\* grows with it.
ServerIds(tok) == {k \in 1..Len(server) : server[k].owner = tok}

\* sort((a, b) => dateB - dateA) on createdAt: newest first
NewestFirst(ids) ==
    LET F[S \in SUBSET ids] ==
            IF S = {} THEN <<>>
            ELSE LET m == CHOOSE x \in S : \A y \in S : y <= x
                 IN  <<m>> \o F[S \ {m}]
    IN  F[ids]

\* setExpenses(prev => ...) of addExpense: prev if it already holds the
\* _id, else [newExpense, ...prev] sorted newest first
WithNewExpense(prev, id) ==
    IF \E k \in 1..Len(prev) : prev[k] = id THEN prev
    ELSE NewestFirst(Range(prev) \cup {id})

\* response interceptor of api.ts: a 401 removes the stored token.
TokenAfter(outcome) == IF outcome = "unauth" THEN None ELSE token

NoDraft  == FormData(Num(0), "", "", "", "")
IdleAdd  == [pc |-> "idle", uid |-> 0, d |-> NoDraft, tok |-> None,
             list |-> <<>>, res |-> None, why |-> None, win |-> {},
             during |-> {}]
IdleSync == [pc |-> "idle", list |-> <<>>, i |-> 0, tok |-> None,
             syncedIds |-> <<>>, att |-> <<>>, sent |-> <<>>,
             remaining |-> <<>>, result |-> [synced |-> 0, remaining |-> 0],
             during |-> {}]

Finished(pc) == pc \in {"idle", "done", "failed"}

\* calls that are between their queue read and their queue write
InWindow == {a \in AddCalls : add[a].pc = "saveWrite"}
            \cup {s \in SyncCalls : sync[s].pc \in {"post", "write"}}

AnyInProgress == (\E a \in AddCalls : ~Finished(add[a].pc))
                 \/ (\E s \in SyncCalls : ~Finished(sync[s].pc))

\* no answer to GET /expenses is on its way
NotServed == [served |-> FALSE, ids |-> <<>>]

\* no call in progress, nothing on the server, empty histories
Started ==
    /\ server = <<>>
    /\ now = 1
    /\ offlineExpenses = <<>>
    /\ expenses = <<>>
    /\ loadExp = FALSE
    /\ add = [a \in AddCalls |-> IdleAdd]
    /\ sync = [s \in SyncCalls |-> IdleSync]
    /\ loadOff = FALSE
    /\ nextUid = 1
    /\ logins = 0
    /\ acked = {}
    /\ saved = <<>>
    /\ everSynced = FALSE
    /\ overlapped = FALSE
    /\ pendingSync = FALSE
    /\ submitted = <<>>
    /\ authors = <<>>
    /\ loadReply = NotServed

\* the Add Expense form as it is mounted: empty amount, no alert shown, no
\* submission pending, no notification added
FormMounted ==
    /\ amount = <<>>
    /\ alerts = 0
    /\ isSubmitting = FALSE
    /\ presses = 0
    /\ notifications = <<>>

\* getOfflineExpenses has not been called on its own
NotRead == got = [called |-> FALSE, ok |-> TRUE, val |-> <<>>]

\* budgetWarning = null, and the answer of Budget.findOne when the user
\* has set no budget for the month
NoWarning == [tier |-> "none", isOverBudget |-> FALSE, remaining |-> 0]
NoBudget  == [exists |-> FALSE, amount |-> 0]

\* the server before any budget is set or expense stored
NoMonth == budget = NoBudget /\ spending = 0 /\ warning = NoWarning

\* a calendar date as far as the routes tell dates apart: the year, the
\* month and where in the month the instant lies: its first instant, the
\* instant 23:59:59.000 of its last day, or half a second after that
Date(year, month, part) == [year |-> year, month |-> month, part |-> part]
NoDate == Date(0, 0, "first")

\* no request handled yet
NoRequest == [route |-> "none", user |-> None, id |-> 0, month |-> 0,
              year |-> 0, amount |-> 0, date |-> NoDate]
NoReply   == [status |-> 0, evaluated |-> FALSE, total |-> 0, ceiling |-> 0,
              warning |-> NoWarning, ids |-> {}, sum |-> 0]
NoUpsert  == [active |-> FALSE, userId |-> None, month |-> 0, year |-> 0,
              amount |-> 0]

\* empty collections, no request handled
EmptyDb ==
    /\ budgets = {}
    /\ expenseDocs = {}
    /\ nextId = 1
    /\ request = NoRequest
    /\ reply = NoReply
    /\ upsert = NoUpsert

\* first start of the app: nothing stored, nobody logged in
Init ==
    /\ store = <<>>
    /\ token = None
    /\ user = None
    /\ Started
    /\ FormMounted
    /\ NotRead
    /\ NoMonth
    /\ EmptyDb

\* -------------------------------------------- POST /expenses: the budget ---
\* isOverBudget = newTotal > budget.amount
IsOverBudget(newTotal, ceiling) == newTotal > ceiling

\* faulty variant of Below: a remaining amount equal to the share counts
BelowOrEqual(remaining, ceiling, percent) ==
    100 * remaining <= percent * ceiling

\* remaining < budget.amount * 0.05 (percent = 5) and
\* remaining < budget.amount * 0.1 (percent = 10), on whole amounts
Below(remaining, ceiling, percent) == 100 * remaining < percent * ceiling

\* faulty variant of AlertThreshold: the share used is compared with 75
AlertAt75(newTotal, ceiling) == 100 * newTotal >= 75 * ceiling

\* percentageUsed >= 0.75 with percentageUsed = (newTotal / ceiling) * 100;
\* the branch is only reached with newTotal <= ceiling, so ceiling > 0
AlertThreshold(newTotal, ceiling) == 10000 * newTotal >= 75 * ceiling

\* faulty variant of Tier: the low-remaining tests come before the
\* over-budget test
TierLowFirst(newTotal, ceiling) ==
    IF Below(ceiling - newTotal, ceiling, 5) THEN "almostExhausted"
    ELSE IF Below(ceiling - newTotal, ceiling, 10) THEN "runningLow"
    ELSE IF IsOverBudget(newTotal, ceiling) THEN "exceeded"
    ELSE IF AlertThreshold(newTotal, ceiling) THEN "alert"
    ELSE "none"

\* the if / else-if chain of the route: which warning is built
Tier(newTotal, ceiling) ==
    IF IsOverBudget(newTotal, ceiling) THEN "exceeded"
    ELSE IF Below(ceiling - newTotal, ceiling, 5) THEN "almostExhausted"
    ELSE IF Below(ceiling - newTotal, ceiling, 10) THEN "runningLow"
    ELSE IF AlertThreshold(newTotal, ceiling) THEN "alert"
    ELSE "none"

\* budgetWarning for a month with a budget: {message, isOverBudget,
\* remaining}; tier stands for the message, null is NoWarning
BudgetWarning(currentSpending, amt, ceiling) ==
    LET newTotal == currentSpending + amt
        tier     == Tier(newTotal, ceiling)
    IN  IF tier = "none" THEN NoWarning
        ELSE [tier |-> tier, isOverBudget |-> tier = "exceeded",
              remaining |-> ceiling - newTotal]

\* budgetWarning of the reply to a create request of amt, in the month the
\* model follows
ReplyWarning(amt) ==
    IF budget.exists THEN BudgetWarning(spending, amt, budget.amount)
    ELSE NoWarning

\* addExpense returns {success: true, expense} for a 201 reply and
\* {success: true, expense, offline: true} for a queued draft: in both the
\* result has no budgetWarning, whatever the reply carried
AddResult(offline, data) ==
    [success |-> TRUE, offline |-> offline, budgetWarning |-> NoWarning]

\* what handleSubmit passes to addNotification for a successful result:
\* the warning, as an error when over budget, or the plain success
Notification(result) ==
    IF result.budgetWarning # NoWarning
    THEN [type |-> IF result.budgetWarning.isOverBudget THEN "error"
                   ELSE "warning",
          tier |-> result.budgetWarning.tier]
    ELSE [type |-> "success", tier |-> "none"]

\* --------------------------------------------------------- environment ---
\* The wall clock advances.
Tick ==
    /\ now < MaxClock
    /\ now' = now + 1
    /\ UNCHANGED <<submitted, amount, auxVars>>
    /\ UNCHANGED <<store, server, token, user, offlineExpenses, expenses, loadExp, add,
                   sync, loadOff, nextUid, logins, acked, saved, everSynced,
                   overlapped, pendingSync>>

\* Connectivity comes back, or the app returns to the foreground.  No code
\* of the client listens for either (no NetInfo, no AppState): the only
\* caller of syncOfflineExpenses is the effect on [user].
Reconnect ==
    /\ store # <<>> /\ user # None /\ ~pendingSync
    /\ pendingSync' = TRUE
    /\ UNCHANGED <<submitted, amount, auxVars>>
    /\ UNCHANGED <<store, server, token, user, now, offlineExpenses, expenses, loadExp,
                   add, sync, loadOff, nextUid, logins, acked, saved,
                   everSynced, overlapped>>

\* ------------------------------------------------------- AuthProvider ---
FreeSync == {s \in SyncCalls : Finished(sync[s].pc)}
FreeAdd  == {a \in AddCalls : Finished(add[a].pc)}

\* login stores the token and sets `user`; the effect of ExpenseProvider
\* on [user] then calls loadExpenses(), loadOfflineExpenses() and
\* syncOfflineExpenses(), each of which runs up to its first await (the
\* GET request, the queue read).
Login(u) ==
    /\ user = None
    /\ logins < MaxLogins
    /\ FreeSync # {}
    /\ token' = u
    /\ user' = u
    /\ logins' = logins + 1
    /\ loadExp' = TRUE
    /\ loadOff' = TRUE
    /\ LET s == IF "s1" \in FreeSync THEN "s1" ELSE "s2"
       IN  sync' = [sync EXCEPT ![s] = [IdleSync EXCEPT !.pc = "read"]]
    /\ overlapped' = (overlapped \/ AnyInProgress)
    /\ pendingSync' = FALSE
    /\ UNCHANGED <<submitted, amount, auxVars>>
    /\ UNCHANGED <<store, server, now, offlineExpenses, expenses, add,
                   nextUid, acked, saved, everSynced>>

\* logout removes the token and clears `user`; the effect does nothing
\* for a null user.
Logout ==
    /\ user # None
    /\ token' = None
    /\ user' = None
    /\ pendingSync' = FALSE
    /\ UNCHANGED <<submitted, amount, auxVars>>
    /\ UNCHANGED <<store, server, now, offlineExpenses, expenses, loadExp, add, sync,
                   loadOff, nextUid, logins, acked, saved, everSynced,
                   overlapped>>

\* loadOfflineExpenses: setOfflineExpenses(await getOfflineExpenses())
LoadOfflineDone(readOk) ==
    /\ loadOff
    /\ loadOff' = FALSE
    /\ offlineExpenses' = GetOfflineExpenses(readOk)
    /\ UNCHANGED <<submitted, amount, auxVars>>
    /\ UNCHANGED <<store, server, token, user, now, expenses, loadExp, add,
                   sync, nextUid, logins, acked, saved, everSynced,
                   overlapped, pendingSync>>

\* HomeScreen calls loadExpenses() when it mounts, when it comes into
\* focus, on pull-to-refresh and after a delete.
Refresh ==
    /\ user # None
    /\ ~loadExp
    /\ loadExp' = TRUE
    /\ UNCHANGED <<submitted, amount, auxVars>>
    /\ UNCHANGED <<store, server, token, user, now, offlineExpenses, expenses,
                   add, sync, loadOff, nextUid, logins, acked, saved,
                   everSynced, overlapped, pendingSync>>

\* The server answers the GET /expenses of a pending loadExpenses: the
\* expenses of the token's user at that moment, newest first.  The answer
\* is then on its way to the client.
LoadExpensesServed ==
    /\ loadExp
    /\ ~loadReply.served
    /\ token # None
    /\ loadReply' = [served |-> TRUE, ids |-> NewestFirst(ServerIds(token))]
    /\ UNCHANGED <<alerts, got, budget, spending, warning, isSubmitting,
                   presses, notifications, authors,
                   dbVars>>
    /\ UNCHANGED <<clientVars, amount>>

\* loadExpenses after `await api.get('/expenses')`: the reply lists the
\* expenses of the token's user, is sorted newest first and replaces
\* `expenses`; an error is only logged.  A reply not yet on its way is
\* made and delivered in this step.
LoadExpensesDone(getOk) ==
    /\ loadExp
    /\ loadExp' = FALSE
    /\ loadReply' = NotServed
    /\ expenses' = IF getOk /\ loadReply.served THEN loadReply.ids
                   ELSE IF getOk /\ token # None
                   THEN NewestFirst(ServerIds(token))
                   ELSE expenses
    /\ UNCHANGED <<alerts, got, budget, spending, warning, isSubmitting,
                   presses, notifications, authors,
                   dbVars>>
    /\ UNCHANGED <<submitted, amount>>
    /\ UNCHANGED <<store, server, token, user, now, offlineExpenses, add,
                   sync, loadOff, nextUid, logins, acked, saved, everSynced,
                   overlapped, pendingSync>>

\* --------------------------------------------------------- addExpense ---
\* faulty variant of Blocked: a press is never ignored
NeverBlocked(ref) == FALSE

\* if (loading || isSubmittingRef.current) return: `loading` is set and
\* cleared together with the ref
Blocked(ref) == ref

\* handleSubmit from `isSubmittingRef.current = true` to the first await
\* of addExpense(formData), `await api.post('/expenses', expenseData)`; the
\* request interceptor attaches the stored token.
StartAdd(draft) ==
    /\ user # None
    /\ nextUid <= MaxSubmits
    /\ FreeAdd # {}
    /\ isSubmitting' = TRUE
    /\ LET a == IF "a1" \in FreeAdd THEN "a1" ELSE "a2"
       IN  add' = [add EXCEPT ![a] = [IdleAdd EXCEPT !.pc = "post",
                                          !.uid = nextUid,
                                          !.d = draft,
                                          !.tok = token]]
    /\ nextUid' = nextUid + 1
    /\ overlapped' = (overlapped \/ AnyInProgress)
    /\ submitted' = Append(submitted, draft)
    /\ authors' = Append(authors, user)
    /\ UNCHANGED <<amount, alerts, got, budget, spending, warning,
                   notifications, loadReply,
                   dbVars>>
    /\ UNCHANGED <<store, server, token, user, now, offlineExpenses, expenses, loadExp,
                   sync, loadOff, logins, acked, saved, everSynced,
                   pendingSync>>

\* A press of the submit button with a valid form holding draft.
Submit(draft) ==
    /\ ~Blocked(isSubmitting)
    /\ StartAdd(draft)
    /\ presses' = presses

\* The create request of addExpense settles.
\*   ok:               put the expense in `expenses`, return
\*                     {success: true, expense}
\*   rejected, unauth: error.response is set: return {success: false, message}
\*   network, badBody: no error.response: call saveOfflineExpense, which
\*                     awaits getOfflineExpenses(); why is a history field,
\*                     the error that was caught
\* When addExpense returns, handleSubmit goes on in the same step: for a
\* successful result it resets the form and adds a notification, for a
\* failure it shows an alert (which changes no state), and its finally
\* block releases isSubmittingRef.
AddPostDone(a, o) ==
    /\ add[a].pc = "post"
    /\ o \in AddOutcomes(add[a].tok)
    /\ Accepted(o) => /\ Len(server) < MaxServer
                      /\ Validates(JSONObject(add[a].d))
    /\ server' = IF Accepted(o)
                 THEN ServerCreate(JSONObject(add[a].d), add[a].uid,
                                   add[a].tok, "add")
                 ELSE server
    /\ token' = TokenAfter(o)
    /\ add' = [add EXCEPT ![a] =
                 IF o = "ok"
                 THEN [IdleAdd EXCEPT !.pc = "done", !.res = "online"]
                 ELSE IF CaughtWithoutResponse(o)
                      THEN [@ EXCEPT !.pc = "saveRead", !.why = o,
                                     !.win = InWindow]
                 ELSE [IdleAdd EXCEPT !.pc = "done", !.res = "rejected"]]
    /\ expenses' = IF o = "ok"
                   THEN WithNewExpense(expenses, Len(server) + 1)
                   ELSE expenses
    /\ acked' = IF o = "ok" THEN acked \cup {add[a].uid} ELSE acked
    /\ amount' = IF o = "ok" THEN <<>> ELSE amount
    /\ spending' = IF Accepted(o) THEN spending + add[a].d.amount.v
                   ELSE spending
    /\ warning' = IF Accepted(o) THEN ReplyWarning(add[a].d.amount.v)
                  ELSE warning
    /\ notifications' =
           IF o = "ok"
           THEN Append(notifications,
                       Notification(AddResult(FALSE, warning')))
           ELSE notifications
    /\ isSubmitting' = IF CaughtWithoutResponse(o) THEN isSubmitting ELSE FALSE
    /\ UNCHANGED <<submitted, alerts, got, budget, presses, authors,
                   loadReply,
                   dbVars>>
    /\ UNCHANGED <<store, user, now, offlineExpenses, loadExp, sync, loadOff,
                   nextUid, logins, saved, everSynced, overlapped,
                   pendingSync>>

\* faulty variant of Push: the entry is put at the head of the list
Unshift(list, entry) == <<entry>> \o list

\* offlineExpenses.push(expenseWithId)
Push(list, entry) == Append(list, entry)

\* saveOfflineExpense after `await getOfflineExpenses()`: build the entry
\* with _id `offline_${Date.now()}`, push it on the list just read and
\* start AsyncStorage.setItem.
SaveReadDone(a, readOk) ==
    /\ add[a].pc = "saveRead"
    /\ add' = [add EXCEPT ![a] =
                 [@ EXCEPT !.pc = "saveWrite",
                           !.list = Push(GetOfflineExpenses(readOk),
                                      OfflineEntry(add[a].d, add[a].uid, now))]]
    /\ UNCHANGED <<submitted, amount, auxVars>>
    /\ UNCHANGED <<store, server, token, user, now, offlineExpenses, expenses, loadExp,
                   sync, loadOff, nextUid, logins, acked, saved, everSynced,
                   overlapped, pendingSync>>

\* history: the calls of w are told that draft u was enqueued inside their
\* read-to-write window; call x is no longer anybody's window.
AddMarked(w, u, x) ==
    [y \in AddCalls |->
        [add[y] EXCEPT !.during = IF y \in w THEN @ \cup {u} ELSE @,
                       !.win = @ \ {x}]]
SyncMarked(w, u) ==
    [y \in SyncCalls |->
        [sync[y] EXCEPT !.during = IF y \in w THEN @ \cup {u} ELSE @]]

\* saveOfflineExpense after `await AsyncStorage.setItem(...)`.
\*   written: return the entry; addExpense appends it to offlineExpenses
\*            and returns {success: true, expense, offline: true}
\*   failed:  saveOfflineExpense rethrows, inside the catch block of
\*            addExpense, so addExpense rejects
\* handleSubmit goes on in the same step, as after the create request; a
\* rejected addExpense ends in its catch block, with an alert.
SaveWriteDone(a, writeOk) ==
    /\ add[a].pc = "saveWrite"
    /\ store' = SetItem(store, JSONStringify(add[a].list), writeOk)
    /\ LET entry == add[a].list[Len(add[a].list)]
       IN  IF writeOk
           THEN /\ offlineExpenses' = Append(offlineExpenses, entry)
                /\ add' = [AddMarked(add[a].win, add[a].uid, a) EXCEPT ![a] =
                             [IdleAdd EXCEPT !.pc = "done", !.res = "offline"]]
                /\ sync' = SyncMarked(add[a].win, add[a].uid)
                /\ acked' = acked \cup {add[a].uid}
                /\ saved' = IF everSynced THEN saved
                            ELSE Append(saved, add[a].uid)
           ELSE /\ add' = [AddMarked({}, 0, a) EXCEPT ![a] =
                             [IdleAdd EXCEPT !.pc = "failed", !.res = "threw"]]
                /\ UNCHANGED <<offlineExpenses, sync, acked, saved>>
    /\ amount' = IF writeOk THEN <<>> ELSE amount
    /\ notifications' =
           IF writeOk
           THEN Append(notifications,
                       Notification(AddResult(TRUE, NoWarning)))
           ELSE notifications
    /\ isSubmitting' = FALSE
    /\ UNCHANGED <<submitted, alerts, got, budget, spending, warning,
                   presses, authors, loadReply,
                   dbVars>>
    /\ UNCHANGED <<server, token, user, now, expenses, loadExp, loadOff,
                   nextUid, logins, everSynced, overlapped, pendingSync>>

\* ------------------------------------------------- syncOfflineExpenses ---
\* faulty variant of NextEntry: the loop steps over an entry
NextEntrySkip(i) == i + 2

\* for (const expense of offlineExpenses): entries are taken in list order
NextEntry(i) == i + 1

\* faulty variant of LoopContinues: the first failed request ends the loop
LoopContinuesAbort(i, list, ok) == ok /\ i < Len(list)

\* the try/catch is inside the loop: the loop goes on whatever the outcome
LoopContinues(i, list, ok) == i < Len(list)

\* syncOfflineExpenses after `await getOfflineExpenses()`: an empty list
\* returns {synced: 0, remaining: 0}; otherwise the first request starts.
SyncReadDone(s, readOk) ==
    /\ sync[s].pc = "read"
    /\ LET list == GetOfflineExpenses(readOk)
       IN  sync' = [sync EXCEPT ![s] =
                     IF Len(list) = 0
                     THEN [IdleSync EXCEPT !.pc = "done"]
                     ELSE [@ EXCEPT !.pc = "post", !.list = list, !.i = 1,
                                    !.tok = token, !.sent = <<1>>]]
    /\ pendingSync' = FALSE
    /\ UNCHANGED <<submitted, amount, auxVars>>
    /\ UNCHANGED <<store, server, token, user, now, offlineExpenses, expenses, loadExp,
                   add, loadOff, nextUid, logins, acked, saved, everSynced,
                   overlapped>>

\* The create request for entry i settles.  On success its _id is pushed
\* on syncedIds; on any error the entry is only logged.  Then the loop
\* either starts the request for the next entry or, after the last one,
\* filters the list and starts AsyncStorage.setItem.
SyncPostDone(s, o) ==
    /\ sync[s].pc = "post"
    /\ o \in PostOutcomes(sync[s].tok)
    /\ Accepted(o) => /\ Len(server) < MaxServer
                      /\ Validates(JSONObject(Payload(sync[s].list[sync[s].i])))
    /\ LET c    == sync[s]
           e    == c.list[c.i]
           ids  == IF o = "ok" THEN Append(c.syncedIds, e.id) ELSE c.syncedIds
           att  == Append(c.att, o = "ok")
       IN  /\ server' = IF Accepted(o)
                        THEN ServerCreate(JSONObject(Payload(e)), e.uid,
                                          c.tok, "drain")
                        ELSE server
           /\ sync' = [sync EXCEPT ![s] =
                        IF LoopContinues(c.i, c.list, o = "ok")
                        THEN [@ EXCEPT !.syncedIds = ids, !.att = att,
                                       !.i = NextEntry(c.i),
                                       !.sent = Append(@, NextEntry(c.i)),
                                       !.tok = TokenAfter(o)]
                        ELSE [@ EXCEPT !.syncedIds = ids, !.att = att,
                                       !.remaining = Remaining(c.list, ids),
                                       !.pc = "write"]]
    /\ token' = TokenAfter(o)
    /\ everSynced' = (everSynced \/ o = "ok")
    /\ saved' = IF o = "ok" THEN <<>> ELSE saved
    /\ LET amt == sync[s].list[sync[s].i].amount.v
       IN  /\ spending' = IF Accepted(o) THEN spending + amt ELSE spending
           /\ warning' = IF Accepted(o) THEN ReplyWarning(amt) ELSE warning
    /\ UNCHANGED <<submitted, amount, alerts, got, budget, isSubmitting,
                   presses, notifications, authors, loadReply,
                   dbVars>>
    /\ UNCHANGED <<store, user, now, offlineExpenses, expenses, loadExp, add, loadOff,
                   nextUid, logins, acked, overlapped, pendingSync>>

\* syncOfflineExpenses after `await AsyncStorage.setItem(..remaining..)`.
\*   written: return {synced: syncedIds.length, remaining: remaining.length}
\*   failed:  rethrow
SyncWriteDone(s, writeOk) ==
    /\ sync[s].pc = "write"
    /\ store' = SetItem(store, JSONStringify(sync[s].remaining), writeOk)
    /\ IF writeOk
       THEN sync' = [sync EXCEPT ![s] =
                       [IdleSync EXCEPT !.pc = "done",
                                 !.result =
                                     [synced |-> Len(sync[s].syncedIds),
                                      remaining |-> Len(sync[s].remaining)]]]
       ELSE sync' = [sync EXCEPT ![s] = [IdleSync EXCEPT !.pc = "failed"]]
    /\ add' = [y \in AddCalls |-> [add[y] EXCEPT !.win = @ \ {s}]]
    /\ UNCHANGED <<submitted, amount, auxVars>>
    /\ UNCHANGED <<server, token, user, now, offlineExpenses, expenses, loadExp, loadOff,
                   nextUid, logins, acked, saved, everSynced, overlapped,
                   pendingSync>>

\* ------------------------------------------------------ specification ---
Settle ==
    \/ \E r \in BOOLEAN : LoadOfflineDone(r)
    \/ \E r \in BOOLEAN : LoadExpensesDone(r)
    \/ \E a \in AddCalls,
          o \in {"ok", "network", "rejected", "unauth", "badBody"} :
          AddPostDone(a, o)
    \/ \E a \in AddCalls, r \in BOOLEAN : SaveReadDone(a, r)
    \/ \E a \in AddCalls, w \in BOOLEAN : SaveWriteDone(a, w)
    \/ \E s \in SyncCalls, r \in BOOLEAN : SyncReadDone(s, r)
    \/ \E s \in SyncCalls, o \in {"ok", "network", "rejected", "unauth"} :
          SyncPostDone(s, o)
    \/ \E s \in SyncCalls, w \in BOOLEAN : SyncWriteDone(s, w)

Next ==
    \/ Tick
    \/ Reconnect
    \/ \E u \in Users : Login(u)
    \/ Logout
    \/ \E d \in Drafts : Submit(d)
    \/ Settle

Spec == Init /\ [][Next]_vars

\* Every awaited promise settles: the event loop runs each continuation.
\* What the user and the network do is not forced.
FairSpec == Spec /\ WF_vars(Settle)

\* The same client with the drafts the form can produce, for a bounded
\* number of submissions.
SubmitForm == nextUid <= MaxRoundTrips /\ \E d \in FormDrafts : Submit(d)

RoundTripNext ==
    \/ Tick
    \/ Reconnect
    \/ \E u \in Users : Login(u)
    \/ Logout
    \/ SubmitForm
    \/ Settle

RoundTripSpec == Init /\ [][RoundTripNext]_vars

\* One device used by two accounts, one after the other, with a bounded
\* number of submissions.
Accounts == {"A", "B"}

SubmitOnce == nextUid <= MaxRoundTrips /\ \E d \in Drafts : Submit(d)

SwitchNext ==
    \/ \E u \in Accounts : Login(u)
    \/ Logout
    \/ SubmitOnce
    \/ Settle

SwitchSpec == Init /\ [][SwitchNext]_vars

\* The client with the list requests of HomeScreen, and with the answer to
\* a list request made by the server at one moment and delivered at a
\* later one.  Drains read the queue; their requests are not followed.
ListNext ==
    \/ \E u \in Users : Login(u)
    \/ Refresh
    \/ \E d \in Drafts : Submit(d)
    \/ LoadExpensesServed
    \/ \E r \in BOOLEAN : LoadExpensesDone(r)
    \/ \E r \in BOOLEAN : LoadOfflineDone(r)
    \/ \E a \in AddCalls,
          o \in {"ok", "network", "rejected", "unauth", "badBody"} :
          AddPostDone(a, o)
    \/ \E a \in AddCalls, r \in BOOLEAN : SaveReadDone(a, r)
    \/ \E a \in AddCalls, w \in BOOLEAN : SaveWriteDone(a, w)
    \/ \E s \in SyncCalls, r \in BOOLEAN : SyncReadDone(s, r)

ListSpec == Init /\ [][ListNext]_vars

\* ------------------------------- POST /expenses on its own: the month ---
\* POST /expenses with a valid body from an authenticated user: the
\* warning is computed from the month's expenses plus the new amount, the
\* expense is stored, and the reply carries the warning.
PostExpense(amt) ==
    /\ warning' = ReplyWarning(amt)
    /\ spending' = spending + amt
    /\ UNCHANGED <<clientVars, amount, alerts, got, budget,
                   isSubmitting, presses, notifications, authors, loadReply,
                   dbVars>>

\* a month in which the user has set a budget, or none, and no expense yet
BudgetInit ==
    /\ store = <<>>
    /\ \E u \in Users : token = u /\ user = u
    /\ Started
    /\ FormMounted
    /\ NotRead
    /\ budget \in {NoBudget}
                   \cup {[exists |-> TRUE, amount |-> c] : c \in 0..MaxBudget}
    /\ spending = 0
    /\ warning = NoWarning
    /\ EmptyDb

BudgetNext ==
    \E amt \in 1..MaxAmount : spending + amt <= MaxSpend /\ PostExpense(amt)

BudgetSpec == BudgetInit /\ [][BudgetNext]_vars

\* The same route in months with a large ceiling, where a total can be a
\* small share of it: small amounts and one large one, up to the ceiling.
LargeBudgets == {134, 400, 1000}
LargeAmounts == {400}

AlertInit ==
    /\ store = <<>>
    /\ \E u \in Users : token = u /\ user = u
    /\ Started
    /\ FormMounted
    /\ NotRead
    /\ budget \in {[exists |-> TRUE, amount |-> c] : c \in LargeBudgets}
    /\ spending = 0
    /\ warning = NoWarning
    /\ EmptyDb

AlertNext ==
    \E amt \in 1..MaxAmount \cup LargeAmounts :
        spending + amt <= budget.amount /\ PostExpense(amt)

AlertSpec == AlertInit /\ [][AlertNext]_vars

\* ------------------------------------------------------ AddExpenseScreen ---
DigitChars == <<"0", "1", "2", "3", "4", "5", "6", "7", "8", "9">>
Digits == Range(DigitChars)
DigitVal(c) == (CHOOSE k \in 1..Len(DigitChars) : DigitChars[k] = c) - 1

InfinityText == <<"I", "n", "f", "i", "n", "i", "t", "y">>

\* texts typed (or pasted) into the amount field
AmountTexts ==
    {<<>>, <<"a", "b", "c">>, <<"0">>, <<"-", "5">>, <<"1", "0">>,
     <<"1", "0", "x">>, InfinityText}

\* the number of leading digits of s
DigitPrefix(s) ==
    Cardinality({n \in 1..Len(s) : \A k \in 1..n : s[k] \in Digits})

\* the value of the decimal numeral s[1..n]
Decimal(s, n) ==
    LET F[k \in 0..n] == IF k = 0 THEN 0 ELSE 10 * F[k - 1] + DigitVal(s[k])
    IN  F[n]

\* parseFloat(text) on texts without a decimal point or an exponent: an
\* optional sign, then Infinity or the longest run of digits; NaN when
\* there is neither; what follows the number is ignored
ParseFloat(txt) ==
    LET neg  == txt # <<>> /\ txt[1] = "-"
        body == IF neg THEN Tail(txt) ELSE txt
        n    == DigitPrefix(body)
    IN  IF Len(body) >= Len(InfinityText)
           /\ SubSeq(body, 1, Len(InfinityText)) = InfinityText
        THEN (IF neg THEN NaN ELSE PosInf)
        ELSE IF n = 0 THEN NaN
        ELSE Num((IF neg THEN -1 ELSE 1) * Decimal(body, n))

\* faulty variant of Rejects: zero is let through
RejectsNegative(txt) ==
    \/ txt = <<>>
    \/ ParseFloat(txt).kind = "nan"
    \/ (ParseFloat(txt).kind = "finite" /\ ParseFloat(txt).v < 0)

\* !amount || isNaN(amountNum) || amountNum <= 0
Rejects(txt) ==
    \/ txt = <<>>
    \/ ParseFloat(txt).kind = "nan"
    \/ (ParseFloat(txt).kind = "finite" /\ ParseFloat(txt).v <= 0)

\* onChangeText={setAmount}
SetAmount(txt) ==
    /\ amount' = txt
    /\ UNCHANGED <<clientVars, auxVars>>

\* A press of the submit button: handleSubmit up to its first await.
\* Nothing happens while a submission is pending; an amount that does not
\* pass the check raises the alert and returns; otherwise
\* addExpense(formData) is called with the parsed amount and the other
\* fields of the form (left at their defaults here).
HandleSubmit ==
    /\ user # None
    /\ presses < MaxPresses
    /\ presses' = presses + 1
    /\ IF Blocked(isSubmitting)
       THEN UNCHANGED <<clientVars, amount, alerts, got, budget, spending,
                        warning, isSubmitting, notifications, authors,
                        loadReply,
                   dbVars>>
       ELSE IF Rejects(amount)
       THEN /\ alerts < MaxAlerts
            /\ alerts' = alerts + 1
            /\ UNCHANGED <<clientVars, amount, got, budget, spending,
                           warning, isSubmitting, notifications, authors,
                           loadReply,
                   dbVars>>
       ELSE StartAdd(FormData(ParseFloat(amount), "Food", "Cash", "",
                              "2024-01-15"))

\* the budgets the user may have set for the month before opening the
\* screen: none, or a ceiling below, just above or far above an amount of 10
FormBudgets ==
    {NoBudget} \cup {[exists |-> TRUE, amount |-> c] : c \in {5, 11, 1000, 2000}}

\* the screen is shown to a logged-in user with no call in progress and no
\* expense in the month yet
FormInit ==
    /\ store = <<>>
    /\ \E u \in Users : token = u /\ user = u
    /\ Started
    /\ FormMounted
    /\ NotRead
    /\ budget \in FormBudgets
    /\ spending = 0
    /\ warning = NoWarning
    /\ EmptyDb

FormNext ==
    \/ \E txt \in AmountTexts : SetAmount(txt)
    \/ HandleSubmit
    \/ \E a \in AddCalls,
          o \in {"ok", "network", "rejected", "unauth", "badBody"} :
          AddPostDone(a, o)
    \/ \E a \in AddCalls, r \in BOOLEAN : SaveReadDone(a, r)
    \/ \E a \in AddCalls, w \in BOOLEAN : SaveWriteDone(a, w)

FormSpec == FormInit /\ [][FormNext]_vars

\* ---------------------------------------------------- getOfflineExpenses ---
\* The function on its own, applied to the queues the client can have
\* written: up to two entries, made from the drafts of the form.
StoredEntries(uid) ==
    {JSONObject(OfflineEntry(d, uid, c)) : d \in FormDrafts, c \in 1..MaxClock}

StoredQueues ==
    {<<>>} \cup {<<e>> : e \in StoredEntries(1) \cup StoredEntries(2)}
           \cup {<<e1, e2>> : e1 \in StoredEntries(1), e2 \in StoredEntries(2)}

\* a call of getOfflineExpenses from its await to its return
ListQueued(readOk) ==
    /\ got' = [called |-> TRUE, ok |-> readOk,
               val |-> GetOfflineExpenses(readOk)]
    /\ UNCHANGED <<clientVars, amount, alerts, budget, spending, warning,
                   isSubmitting, presses, notifications, authors, loadReply,
                   dbVars>>

ReadInit ==
    /\ store \in StoredQueues
    /\ token = None
    /\ user = None
    /\ Started
    /\ FormMounted
    /\ NotRead
    /\ NoMonth
    /\ EmptyDb

ReadNext == \E r \in BOOLEAN : ListQueued(r)

ReadSpec == ReadInit /\ [][ReadNext]_vars

\* ------------------------------------------------- the budget routes ---
\* The routes run behind `authenticate`: u is req.user._id.  A request is
\* served in one step, except an upsert that has to insert.

\* a body field that is absent
Undefined == [kind |-> "undefined", v |-> 0]

\* what the requests of BudgetDbSpec carry
BudgetMonths  == {0, 1, 13}
BudgetYears   == {0, 2024}
BudgetAmounts == {Undefined, Num(-1), Num(0), Num(50)}

\* the Budget documents a filter {userId, month, year} matches
BudgetsOf(u, month, year) ==
    {b \in budgets : b.userId = u /\ b.month = month /\ b.year = year}

\* the Budget documents a filter {_id, userId} matches
BudgetsById(u, id) == {b \in budgets : b.id = id /\ b.userId = u}

\* faulty variant of UniqueIndex: no index, every insert is accepted
NoIndex(u, month, year) == TRUE

\* budgetSchema.index({userId, year, month}, {unique: true}): an insert
\* is accepted only if no document has the key
UniqueIndex(u, month, year) == BudgetsOf(u, month, year) = {}

\* the update {amount} applied to the documents of `matched`
SetAmountOf(matched, amt) ==
    (budgets \ matched) \cup {[b EXCEPT !.amount = amt] : b \in matched}

BudgetRequest(route, u, id, month, year, amt) ==
    [route |-> route, user |-> u, id |-> id, month |-> month,
     year |-> year, amount |-> amt.v, date |-> NoDate]

Status(code) == [NoReply EXCEPT !.status = code]

\* POST /budget.  A body without month, year or amount, a month outside
\* 1..12 and a negative amount are answered 400.  findOneAndUpdate with
\* upsert: a matching document gets the amount; with no match a document
\* is inserted, at once or, when other requests are served in between,
\* in a second step.
PostBudget(u, month, year, amt, atOnce) ==
    /\ request' = BudgetRequest("postBudget", u, 0, month, year, amt)
    /\ IF month = 0 \/ year = 0 \/ amt = Undefined
          \/ month < 1 \/ month > 12 \/ amt.v < 0
       THEN reply' = Status(400) /\ UNCHANGED <<budgets, nextId, upsert>>
       ELSE IF BudgetsOf(u, month, year) # {}
       THEN /\ budgets' = SetAmountOf(BudgetsOf(u, month, year), amt.v)
            /\ reply' = Status(201)
            /\ UNCHANGED <<nextId, upsert>>
       ELSE IF atOnce
       THEN /\ nextId <= MaxDocs
            /\ budgets' = budgets \cup
                   {[id |-> nextId, userId |-> u, month |-> month,
                     year |-> year, amount |-> amt.v]}
            /\ nextId' = nextId + 1
            /\ reply' = Status(201)
            /\ UNCHANGED upsert
       ELSE /\ ~upsert.active
            /\ nextId <= MaxDocs
            /\ upsert' = [active |-> TRUE, userId |-> u, month |-> month,
                          year |-> year, amount |-> amt.v]
            /\ reply' = NoReply
            /\ UNCHANGED <<budgets, nextId>>
    /\ UNCHANGED <<appVars, expenseDocs>>

\* The insert of a pending upsert.  The unique index refuses it if a
\* document with the key has been inserted meanwhile: the server either
\* retries the operation as an update or raises error 11000, which the
\* route answers with 400.
PostBudgetInsert(retried) ==
    /\ upsert.active
    /\ upsert' = NoUpsert
    /\ request' = BudgetRequest("postBudget", upsert.userId, 0, upsert.month,
                                upsert.year, Num(upsert.amount))
    /\ IF UniqueIndex(upsert.userId, upsert.month, upsert.year)
       THEN /\ budgets' = budgets \cup
                   {[id |-> nextId, userId |-> upsert.userId,
                     month |-> upsert.month, year |-> upsert.year,
                     amount |-> upsert.amount]}
            /\ nextId' = nextId + 1
            /\ reply' = Status(201)
       ELSE IF retried
       THEN /\ budgets' = SetAmountOf(BudgetsOf(upsert.userId, upsert.month,
                                                upsert.year), upsert.amount)
            /\ reply' = Status(201)
            /\ UNCHANGED nextId
       ELSE /\ reply' = Status(400)
            /\ UNCHANGED <<budgets, nextId>>
    /\ UNCHANGED <<appVars, expenseDocs>>

\* PUT /budget/:id: an absent or negative amount is answered 400, no
\* document with the id and the user 404.
PutBudget(u, id, amt) ==
    /\ request' = BudgetRequest("putBudget", u, id, 0, 0, amt)
    /\ IF amt = Undefined \/ amt.v < 0
       THEN reply' = Status(400) /\ UNCHANGED budgets
       ELSE IF BudgetsById(u, id) = {}
       THEN reply' = Status(404) /\ UNCHANGED budgets
       ELSE /\ budgets' = SetAmountOf(BudgetsById(u, id), amt.v)
            /\ reply' = Status(200)
    /\ UNCHANGED <<appVars, expenseDocs, nextId, upsert>>

\* DELETE /budget/:id
DeleteBudget(u, id) ==
    /\ request' = BudgetRequest("deleteBudget", u, id, 0, 0, Num(0))
    /\ IF BudgetsById(u, id) = {}
       THEN reply' = Status(404) /\ UNCHANGED budgets
       ELSE /\ budgets' = budgets \ BudgetsById(u, id)
            /\ reply' = Status(200)
    /\ UNCHANGED <<appVars, expenseDocs, nextId, upsert>>

BudgetDbNext ==
    \/ \E u \in Accounts, month \in BudgetMonths, year \in BudgetYears,
          amt \in BudgetAmounts, atOnce \in BOOLEAN :
          PostBudget(u, month, year, amt, atOnce)
    \/ \E retried \in BOOLEAN : PostBudgetInsert(retried)
    \/ \E u \in Accounts, id \in 1..MaxDocs, amt \in BudgetAmounts :
          PutBudget(u, id, amt)
    \/ \E u \in Accounts, id \in 1..MaxDocs : DeleteBudget(u, id)

BudgetDbSpec == Init /\ [][BudgetDbNext]_vars

\* ------------------------------------------------ the expense routes ---
\* An instant on a scale that orders the three instants of every month.
Instant(d) ==
    3 * (12 * d.year + (d.month - 1))
      + (CASE d.part = "first" -> 0
           [] d.part = "lastSecond" -> 1
           [] d.part = "lastHalfSecond" -> 2)

\* new Date(year, month - 1, 1)
StartOfMonth(year, month) == Date(year, month, "first")

\* new Date(year, month, 0, 23, 59, 59): the last day of the month at
\* 23:59:59 and 0 milliseconds
EndOfMonth(year, month) == Date(year, month, "lastSecond")

\* faulty variant of Owned: the filter has no userId
OwnedByAnyone(e, u) == TRUE

\* the filter {userId} of every expense query
Owned(e, u) == e.userId = u

\* Expense.find({userId, date: {$gte: startOfMonth, $lte: endOfMonth}})
ExpensesOfMonth(u, year, month) ==
    {e \in expenseDocs :
        /\ Owned(e, u)
        /\ Instant(e.date) >= Instant(StartOfMonth(year, month))
        /\ Instant(e.date) <= Instant(EndOfMonth(year, month))}

\* the filter {_id, userId} of the routes with an :id
ExpensesById(u, id) == {e \in expenseDocs : e.id = id /\ Owned(e, u)}

\* expenses.reduce((sum, exp) => sum + exp.amount, 0)
RECURSIVE SumAmounts(_)
SumAmounts(docs) ==
    IF docs = {} THEN 0
    ELSE LET e == CHOOSE x \in docs : TRUE
         IN  e.amount + SumAmounts(docs \ {e})

\* what the requests of ExpenseDbSpec carry: amounts, and the dates of a
\* body or of the server's clock
ExpenseAmounts == {Num(0), Num(2), Num(3)}
ExpenseDates   == {Date(2024, 1, "first"), Date(2024, 1, "lastHalfSecond"),
                   Date(2024, 2, "first")}

\* the budgets set before the first expense
SeededBudgets ==
    {{},
     {[id |-> 1, userId |-> "A", month |-> 1, year |-> 2024, amount |-> 4]},
     {[id |-> 1, userId |-> "A", month |-> 1, year |-> 2024, amount |-> 4],
      [id |-> 2, userId |-> "B", month |-> 2, year |-> 2024, amount |-> 40]}}

ExpenseRequest(route, u, id, amt, date) ==
    [route |-> route, user |-> u, id |-> id, month |-> date.month,
     year |-> date.year, amount |-> amt.v, date |-> date]

\* POST /expenses.  body.date is NoDate when the body has no date, and
\* then the expense is dated by the server's clock, today.  The budget of
\* the date's month is looked up and, if there is one, the month's stored
\* expenses are summed and the warning is built; then the expense is
\* created for the user of the request.  by records the creator.
CreateExpense(u, body, today) ==
    LET expenseDate == IF body.date = NoDate THEN today ELSE body.date
        month       == expenseDate.month
        year        == expenseDate.year
        found       == BudgetsOf(u, month, year)
        ceiling     == (CHOOSE b \in found : TRUE).amount
        currentSpending == SumAmounts(ExpensesOfMonth(u, year, month))
    IN  /\ request' = ExpenseRequest("createExpense", u, 0, body.amount,
                                     expenseDate)
        /\ IF ~Validates(body)
           THEN reply' = Status(400) /\ UNCHANGED <<expenseDocs, nextId>>
           ELSE /\ nextId <= MaxDocs
                /\ expenseDocs' = expenseDocs \cup
                       {[id |-> nextId, userId |-> u,
                         amount |-> body.amount.v, date |-> expenseDate,
                         by |-> u]}
                /\ nextId' = nextId + 1
                /\ reply' =
                     IF found = {} THEN Status(201)
                     ELSE [Status(201) EXCEPT
                             !.evaluated = TRUE,
                             !.total = currentSpending + body.amount.v,
                             !.ceiling = ceiling,
                             !.warning = BudgetWarning(currentSpending,
                                             body.amount.v, ceiling)]
        /\ UNCHANGED <<appVars, budgets, upsert>>

\* GET /expenses: the user's expenses
ListExpenses(u) ==
    /\ request' = ExpenseRequest("listExpenses", u, 0, Num(0), NoDate)
    /\ reply' = [Status(200) EXCEPT
                   !.ids = {e.id : e \in {x \in expenseDocs : Owned(x, u)}}]
    /\ UNCHANGED <<appVars, budgets, expenseDocs, nextId, upsert>>

\* GET /expenses/:id
GetExpense(u, id) ==
    /\ request' = ExpenseRequest("getExpense", u, id, Num(0), NoDate)
    /\ reply' = IF ExpensesById(u, id) = {} THEN Status(404)
                ELSE [Status(200) EXCEPT !.ids = {id}]
    /\ UNCHANGED <<appVars, budgets, expenseDocs, nextId, upsert>>

\* PUT /expenses/:id: amount and date of the body replace the stored ones
PutExpense(u, id, amt, date) ==
    /\ request' = ExpenseRequest("putExpense", u, id, amt, date)
    /\ IF ExpensesById(u, id) = {}
       THEN reply' = Status(404) /\ UNCHANGED expenseDocs
       ELSE /\ expenseDocs' =
                 (expenseDocs \ ExpensesById(u, id)) \cup
                 {[e EXCEPT !.amount = amt.v, !.date = date] :
                     e \in ExpensesById(u, id)}
            /\ reply' = [Status(200) EXCEPT !.ids = {id}]
    /\ UNCHANGED <<appVars, budgets, nextId, upsert>>

\* DELETE /expenses/:id
DeleteExpense(u, id) ==
    /\ request' = ExpenseRequest("deleteExpense", u, id, Num(0), NoDate)
    /\ IF ExpensesById(u, id) = {}
       THEN reply' = Status(404) /\ UNCHANGED expenseDocs
       ELSE /\ expenseDocs' = expenseDocs \ ExpensesById(u, id)
            /\ reply' = [Status(200) EXCEPT !.ids = {id}]
    /\ UNCHANGED <<appVars, budgets, nextId, upsert>>

\* GET /expenses/stats/monthly?year=&month=
MonthlyStats(u, year, month) ==
    /\ request' = ExpenseRequest("monthlyStats", u, 0, Num(0),
                                 StartOfMonth(year, month))
    /\ reply' = [Status(200) EXCEPT
                   !.ids = {e.id : e \in ExpensesOfMonth(u, year, month)},
                   !.sum = SumAmounts(ExpensesOfMonth(u, year, month))]
    /\ UNCHANGED <<appVars, budgets, expenseDocs, nextId, upsert>>

ExpenseDbInit ==
    /\ store = <<>>
    /\ token = None
    /\ user = None
    /\ Started
    /\ FormMounted
    /\ NotRead
    /\ NoMonth
    /\ budgets \in SeededBudgets
    /\ expenseDocs = {}
    /\ nextId = 1
    /\ request = NoRequest
    /\ reply = NoReply
    /\ upsert = NoUpsert

ExpenseDbNext ==
    \/ \E u \in Accounts, amt \in ExpenseAmounts,
          date \in ExpenseDates \cup {NoDate}, today \in ExpenseDates :
          CreateExpense(u, FormData(amt, "Food", "Cash", "", date), today)
    \/ \E u \in Accounts : ListExpenses(u)
    \/ \E u \in Accounts, id \in 1..MaxDocs : GetExpense(u, id)
    \/ \E u \in Accounts, id \in 1..MaxDocs,
          amt \in ExpenseAmounts \ {Num(0)}, date \in ExpenseDates :
          PutExpense(u, id, amt, date)
    \/ \E u \in Accounts, id \in 1..MaxDocs : DeleteExpense(u, id)
    \/ \E u \in Accounts, date \in ExpenseDates :
          MonthlyStats(u, date.year, date.month)

ExpenseDbSpec == ExpenseDbInit /\ [][ExpenseDbNext]_vars

\* ============================================================= claims ===
OnServer(u) == \E k \in 1..Len(server) : server[k].uid = u
InStore(u)  == \E k \in 1..Len(store) : store[k].uid = u

\* the entries of list whose attempt did not succeed, in list order
FailedEntries(list, att) ==
    LET F[k \in 0..Len(list)] ==
            IF k = 0 THEN <<>>
            ELSE IF att[k] THEN F[k - 1] ELSE Append(F[k - 1], list[k])
    IN  F[Len(list)]
Succeeded(att) == Cardinality({k \in 1..Len(att) : att[k]})

\* a drain returns its result in this step
SyncReturns(s) == sync[s].pc \in {"read", "write"} /\ sync'[s].pc = "done"
\* a drain or an enqueue that was past its queue read ends in this step
SyncEnds(s) == sync[s].pc = "write" /\ Finished(sync'[s].pc)
SaveEnds(a) == add[a].pc = "saveWrite" /\ Finished(add'[a].pc)

\* C1: as long as the calls have run one after another, every draft for
\* which addExpense returned success=true is stored on the server or is
\* still in the durable queue.
C1_NoSilentLoss ==
    ~overlapped => \A u \in acked : OnServer(u) \/ InStore(u)

\* C2: for every queued draft the server accepts at most one create
\* request made by a drain, whatever drains run, overlap or fail to write.
C2_ExactlyOnce ==
    \A u \in 1..MaxSubmits :
        Cardinality({k \in 1..Len(server) :
                        server[k].uid = u /\ server[k].via = "drain"}) <= 1

\* C3: when a drain (or an enqueue) ends, every draft whose enqueue started
\* and completed between that call's queue read and its queue write is
\* still in the durable queue or on the server.
C3_NoOverwrite ==
    [][/\ \A s \in SyncCalls :
            SyncEnds(s) =>
                \A u \in sync[s].during : InStore(u)' \/ OnServer(u)'
       /\ \A a \in AddCalls :
            SaveEnds(a) =>
                \A u \in add[a].during : InStore(u)' \/ OnServer(u)']_vars

\* C4: when a drain that has made its requests returns, the durable queue
\* is exactly the entries whose request failed, in their original order,
\* synced is the number of requests that succeeded and remaining the number
\* that failed.
C4_PartialFailure ==
    [][\A s \in SyncCalls :
          (SyncEnds(s) /\ SyncReturns(s)) =>
              /\ store' = FailedEntries(sync[s].list, sync[s].att)
              /\ sync'[s].result.synced = Succeeded(sync[s].att)
              /\ sync'[s].result.remaining =
                     Len(sync[s].list) - Succeeded(sync[s].att)]_vars

\* C5: when the loop of a drain is over, every entry read from the queue
\* has had exactly one create request, whatever the outcomes were.
C5_EveryEntryAttempted ==
    \A s \in SyncCalls :
        sync[s].pc = "write" =>
            /\ Len(sync[s].att) = Len(sync[s].list)
            /\ Len(sync[s].sent) = Len(sync[s].list)
            /\ \A k \in 1..Len(sync[s].list) :
                   Cardinality({j \in 1..Len(sync[s].sent) :
                                   sync[s].sent[j] = k}) = 1

\* a drain has read two entries, the first request failed and the loop
\* still went through the whole list
C5_Witness ==
    \E s \in SyncCalls :
        /\ sync[s].pc = "write"
        /\ Len(sync[s].list) = 2
        /\ sync[s].att[1] = FALSE
        /\ sync[s].sent = <<1, 2>>

\* C6: after n enqueues with no overlap and no drain request that succeeded,
\* the durable queue holds exactly those n entries, in the order of the calls.
C6_QueueMonotone ==
    (~overlapped /\ ~everSynced) =>
        [k \in 1..Len(store) |-> store[k].uid] = saved

\* C7: a drain that returns with every request succeeded leaves the durable
\* queue empty and reports remaining = 0; a drain that then finds the queue
\* empty returns {synced: 0, remaining: 0} and makes no create request.
C7_DrainIdempotent ==
    [][\A s \in SyncCalls :
          /\ (SyncReturns(s) /\ \A k \in 1..Len(sync[s].att) : sync[s].att[k])
                => (store' = <<>> /\ sync'[s].result.remaining = 0)
          /\ (sync[s].pc = "read" /\ sync'[s].pc # "read" /\ store = <<>>)
                => /\ sync'[s].pc = "done"
                   /\ sync'[s].result = [synced |-> 0, remaining |-> 0]
                   /\ server' = server]_vars

\* C8: in a drain the create requests are issued in list order (the order
\* of enqueueing) and one at a time: the requests started so far are those
\* of entries 1, 2, ..., in that order, and at most one of them has not
\* completed.
C8_SequentialInOrder ==
    \A s \in SyncCalls :
        sync[s].pc \in {"post", "write"} =>
            /\ sync[s].sent = [k \in 1..Len(sync[s].sent) |-> k]
            /\ Len(sync[s].sent) - Len(sync[s].att)
                   = (IF sync[s].pc = "post" THEN 1 ELSE 0)
            /\ sync[s].pc = "post" => sync[s].i = Len(sync[s].sent)

\* the request for the second entry of a drain is in flight and the one
\* for the first entry has completed
C8_Witness ==
    \E s \in SyncCalls :
        /\ sync[s].pc = "post"
        /\ sync[s].sent = <<1, 2>>
        /\ Len(sync[s].att) = 1
        /\ sync[s].list[1].uid = 1 /\ sync[s].list[2].uid = 2

\* C9: an entry whose request fails in a drain stays in the durable queue
\* for the next drain (so that it can be delivered eventually).
C9_FailedStaysQueued ==
    [][\A s \in SyncCalls :
          SyncReturns(s) =>
              \A e \in {sync[s].list[k] :
                           k \in {j \in 1..Len(sync[s].list) : ~sync[s].att[j]}} :
                  InStore(e.uid)']_vars

\* C10: when connectivity comes back (or the app returns to the foreground)
\* with a non-empty queue, eventually a drain is started (or a drain in
\* flight reads the queue), unless the user logs out first.
C10_SyncOnReconnect ==
    pendingSync ~> ~pendingSync

\* C11: while a drain is attempting an entry, every entry of its list that
\* the server has already accepted is gone from the durable queue (so that a
\* restart at that point finds a queue without the accepted entries).
C11_RemovedAtAcceptance ==
    \A s \in SyncCalls :
        sync[s].pc = "post" =>
            \A k \in 1..Len(sync[s].att) :
                sync[s].att[k] => ~InStore(sync[s].list[k].uid)

\* C12: the body of every create request of a drain that the server
\* accepted is the draft that was passed to addExpense, field for field:
\* the same five fields with the same values, and no other field.
C12_RoundTrip ==
    \A k \in 1..Len(server) :
        server[k].via = "drain" => server[k].d = submitted[server[k].uid]

\* a draft with a description and a category other than the default has
\* been queued, drained and accepted
C12_Witness ==
    \E k \in 1..Len(server) :
        /\ server[k].via = "drain"
        /\ server[k].d.description = "tea"
        /\ server[k].d.category = "Other"
        /\ store = <<>>

\* C13: an addExpense call whose create request failed on the network goes
\* on to saveOfflineExpense without touching `expenses`; when it returns, it
\* returns success with offline = true, the durable queue ends with the one
\* entry it holds for that draft, and the entry returned (and appended to
\* offlineExpenses) is the draft tagged isOffline with a temporary _id.
C13_OfflineFallback ==
    [][\A a \in AddCalls :
          /\ (add[a].pc = "post" /\ add'[a].pc = "saveRead")
                => (expenses' = expenses /\ store' = store)
          /\ (add[a].why = "network" /\ add'[a].pc # add[a].pc)
                => /\ expenses' = expenses
                   /\ add'[a].pc \in {"saveWrite", "done", "failed"}
                   /\ add'[a].pc = "done"
                        => /\ add'[a].res = "offline"
                           /\ store' # <<>>
                           /\ store'[Len(store')].uid = add[a].uid
                           /\ Cardinality({k \in 1..Len(store') :
                                   store'[k].uid = add[a].uid}) = 1
                           /\ Len(offlineExpenses') = Len(offlineExpenses) + 1
                           /\ LET e == offlineExpenses'[Len(offlineExpenses')]
                              IN  /\ e.isOffline /\ e.id[1] = "offline_"
                                  /\ e.userId = ""
                                  /\ Payload(e) = add[a].d]_vars

\* an addExpense call that failed on the network has returned offline and
\* the durable queue now holds two entries, the new one last
C13_Witness ==
    \E a \in AddCalls :
        /\ add[a].pc = "done" /\ add[a].res = "offline"
        /\ Len(store) = 2 /\ store[2].uid = 2 /\ store[1].uid = 1
        /\ Len(offlineExpenses) = 2

\* C14: an addExpense call goes on to saveOfflineExpense only when its
\* create request failed on the network; when anything answered the
\* request, the call returns at once, with success = false for a rejection,
\* and the durable queue is left as it is.
C14_OnlyNetworkQueued ==
    [][\A a \in AddCalls :
          (add[a].pc = "post" /\ add'[a].pc # "post")
              => /\ store' = store
                 /\ add'[a].pc = "saveRead" => add'[a].why = "network"
                 /\ add'[a].pc # "saveRead"
                      => /\ add'[a].pc = "done"
                         /\ add'[a].res \in {"online", "rejected"}]_vars

\* C15: a call whose write of the durable queue fails ends by throwing
\* (addExpense rejects, syncOfflineExpenses rethrows), and neither that step
\* nor any earlier step of the call changes the durable queue or the
\* in-memory offlineExpenses list.
C15_StorageFailureFatal ==
    [][/\ \A a \in AddCalls :
            /\ (add[a].pc = "saveWrite" /\ add'[a].pc = "failed")
                  => /\ add'[a].res = "threw"
                     /\ store' = store /\ offlineExpenses' = offlineExpenses
            /\ (add[a].pc \in {"post", "saveRead"} /\ add'[a].pc # add[a].pc)
                  => (store' = store /\ offlineExpenses' = offlineExpenses)
       /\ \A s \in SyncCalls :
            /\ (sync[s].pc = "write" /\ sync'[s].pc # "write")
                  => /\ sync'[s].pc \in {"done", "failed"}
                     /\ sync'[s].pc = "failed"
                          => (store' = store
                              /\ offlineExpenses' = offlineExpenses)
            /\ (sync[s].pc \in {"read", "post"}
                    /\ (sync'[s].pc # sync[s].pc \/ sync'[s].i # sync[s].i))
                  => (store' = store /\ offlineExpenses' = offlineExpenses)]_vars

\* an addExpense call and a drain have both ended on a failed write, the
\* drain after the server accepted an entry, and the queue is still there
C15_Witness ==
    /\ \E a \in AddCalls : add[a].pc = "failed" /\ add[a].res = "threw"
    /\ \E s \in SyncCalls : sync[s].pc = "failed"
    /\ store # <<>>
    /\ \E k \in 1..Len(server) : server[k].via = "drain"

\* C16: a call of getOfflineExpenses always returns a list and leaves the
\* durable store as it is: the stored entries in stored order when the read
\* succeeds (the empty list when nothing is stored), the empty list when
\* the read fails.
C16_ListQueuedTotal ==
    [][got' # got =>
          /\ store' = store
          /\ got'.called
          /\ got'.ok => got'.val = store
          /\ ~got'.ok => got'.val = <<>>]_vars

\* the function has returned a stored queue of two different entries
C16_Witness ==
    /\ got.called /\ got.ok
    /\ Len(got.val) = 2 /\ got.val[1] # got.val[2]
    /\ got.val[1].uid = 1

\* C17: no two entries of the durable queue have the same _id, and every
\* entry is tagged isOffline with an _id that starts with the offline marker.
C17_UniqueIds ==
    /\ \A j, k \in 1..Len(store) : j # k => store[j].id # store[k].id
    /\ \A k \in 1..Len(store) :
           store[k].isOffline /\ store[k].id[1] = "offline_"

\* the amount field is empty, holds no number (parseFloat finds none) or
\* holds a number that is not greater than zero
InvalidAmount(txt) ==
    \/ txt = <<>>
    \/ ParseFloat(txt) = NaN
    \/ (ParseFloat(txt).kind = "finite" /\ ~(ParseFloat(txt).v > 0))

\* C18: while the amount field holds an invalid amount, no addExpense call
\* starts (so no create request is made for the form), and the step in
\* which handleSubmit raises its alert leaves the durable queue, the server
\* and the calls in flight as they are.
C18_ValidationFirst ==
    [][InvalidAmount(amount) =>
          /\ \A a \in AddCalls : add'[a].pc = "post" => add[a].pc = "post"
          /\ nextUid' = nextUid
          /\ alerts' # alerts
                => (store' = store /\ server' = server /\ add' = add)]_vars

\* handleSubmit has raised its alert for a negative amount, after an
\* earlier expense had been queued offline
C18_Witness ==
    /\ alerts > 0
    /\ amount = <<"-", "5">>
    /\ Len(store) = 1
    /\ server = <<>>

\* C19: whenever the month's total with the new expense is greater than
\* the ceiling (any ceiling from 0 on), the warning returned is the
\* over-budget one: isOverBudget is true and remaining is ceiling - total,
\* a negative number.
C19_OverBudget ==
    (budget.exists /\ spending > budget.amount) =>
        /\ warning.tier = "exceeded"
        /\ warning.isOverBudget
        /\ warning.remaining = budget.amount - spending
        /\ warning.remaining < 0

\* a month with ceiling 0 has gone over budget with its first expense
C19_Witness ==
    /\ budget.exists /\ budget.amount = 0
    /\ spending > 0
    /\ warning.isOverBudget /\ warning.remaining = 0 - spending

\* C20: for a total that does not exceed the ceiling, the warning is the
\* 'almost exhausted' one exactly when the remaining amount is less than
\* 5% of the ceiling, and the 'running low' one exactly when it is at least
\* 5% and less than 10% of the ceiling; both carry isOverBudget = false and
\* remaining = ceiling - total.
C20_LowRemainingTiers ==
    (budget.exists /\ spending > 0 /\ spending <= budget.amount) =>
        LET rem == budget.amount - spending
        IN  /\ warning.tier = "almostExhausted" <=> 20 * rem < budget.amount
            /\ warning.tier = "runningLow"
                   <=> (20 * rem >= budget.amount /\ 10 * rem < budget.amount)
            /\ warning.tier \in {"almostExhausted", "runningLow"}
                   => (~warning.isOverBudget /\ warning.remaining = rem)

\* the remaining amount is exactly 5% of the ceiling and the warning is
\* 'running low'
C20_Witness ==
    /\ budget.exists /\ budget.amount = 20
    /\ spending = 19
    /\ warning.tier = "runningLow" /\ warning.remaining = 1

C26_AlertFrom75Percent ==
    (/\ budget.exists /\ budget.amount > 0
     /\ spending > 0
     /\ 100 * spending < 75 * budget.amount) => warning = NoWarning

\* C22: when the create request of an addExpense call succeeds and the
\* reply carries a budget warning, the step in which the call returns adds
\* one notification carrying that warning, of type 'error' when
\* isOverBudget and 'warning' otherwise (and not the plain success one).
C22_WarningNotified ==
    [][\A a \in AddCalls :
          (add[a].pc = "post" /\ add'[a].res = "online"
              /\ warning' # NoWarning)
              => /\ Len(notifications') = Len(notifications) + 1
                 /\ LET n == notifications'[Len(notifications')]
                    IN  /\ n.type = (IF warning'.isOverBudget THEN "error"
                                     ELSE "warning")
                        /\ n.tier = warning'.tier]_vars

\* C30: from one Add Expense screen at most one addExpense call is in
\* progress at any time; a press of the submit button while a call is
\* pending starts no call (and changes nothing else); and a step in which
\* the pending call ends, whatever its outcome, releases the submit guard.
C30_SingleSubmission ==
    [][/\ Cardinality({a \in AddCalls : ~Finished(add'[a].pc)}) <= 1
       /\ (isSubmitting /\ presses' # presses)
             => /\ add' = add /\ nextUid' = nextUid
                /\ alerts' = alerts /\ isSubmitting'
                /\ store' = store /\ server' = server
       /\ \A a \in AddCalls :
             (~Finished(add[a].pc) /\ Finished(add'[a].pc))
                 => ~isSubmitting'
       /\ (\E a \in AddCalls : ~Finished(add'[a].pc)) => isSubmitting']_vars

\* two presses were ignored while the first call was pending; it ended
\* without success, and a second submission has started since
C30_Witness ==
    /\ presses = 4 /\ alerts = 0 /\ nextUid = 3
    /\ isSubmitting
    /\ add["a1"].pc = "post" /\ add["a1"].uid = 2
    /\ store = <<>> /\ server = <<>>
    /\ notifications = <<>>

\* C28: whenever no addExpense call, no loadOfflineExpenses call and no
\* drain is in progress, the offlineExpenses list of ExpenseProvider is the
\* durable queue: the same entries in the same order.
C28_ViewMatchesQueue ==
    (~AnyInProgress /\ ~loadOff) => offlineExpenses = store

\* C29: the in-memory expenses list never holds the same _id twice, and
\* once no loadExpenses call is in flight it holds every expense whose
\* addExpense call returned an online success exactly once.
C29_ListHoldsNew ==
    /\ \A j, k \in 1..Len(expenses) : j # k => expenses[j] # expenses[k]
    /\ ~loadExp =>
           \A k \in 1..Len(server) :
               server[k].via = "add" =>
                   Cardinality({j \in 1..Len(expenses) : expenses[j] = k}) = 1

\* C25: every expense that a drain creates on the server is created under
\* the account of the user who entered it (who was logged in when the form
\* was submitted), also after that user has logged out and another one has
\* logged in on the device.
C25_QueuedStayWithAuthor ==
    \A k \in 1..Len(server) :
        server[k].via = "drain" => server[k].owner = authors[server[k].uid]

\* C23: whatever budget requests the users make, there is at most one
\* Budget document per user, month and year, and a POST /budget answered
\* 201 for a user, month and year that have a document leaves the number
\* of documents as it was and that document with the posted amount.
C23_OneBudgetPerMonth ==
    [][/\ \A b1, b2 \in budgets' :
            (b1.userId = b2.userId /\ b1.month = b2.month
               /\ b1.year = b2.year) => b1 = b2
       /\ \A b \in budgets :
            (/\ request'.route = "postBudget" /\ reply'.status = 201
             /\ b.userId = request'.user /\ b.month = request'.month
             /\ b.year = request'.year)
            => /\ Cardinality(budgets') = Cardinality(budgets)
               /\ [b EXCEPT !.amount = request'.amount] \in budgets'
               /\ budgets' \ {[b EXCEPT !.amount = request'.amount]}
                    = budgets \ {b}]_vars

\* C23 happens: user A's budget of 0 for January 2024 has been replaced by
\* a POST of 50 while user B has a budget for the same month, and the two
\* are the only documents.
C23_Witness ==
    /\ request = BudgetRequest("postBudget", "A", 0, 1, 2024, Num(50))
    /\ reply.status = 201
    /\ budgets = {[id |-> 1, userId |-> "A", month |-> 1, year |-> 2024,
                   amount |-> 50],
                  [id |-> 2, userId |-> "B", month |-> 1, year |-> 2024,
                   amount |-> 0]}
    /\ nextId = 3
\* C24: an expense keeps the user who created it as its owner as long as
\* it is stored; a get, update or delete request for an expense of another
\* user is answered 404 and changes no expense; and the expenses listed
\* or totalled for a user are expenses of that user, the total being the
\* sum of their amounts.
C24_SingleOwner ==
    [][/\ \A e \in expenseDocs' : e.userId = e.by
       /\ \A e \in expenseDocs : \A f \in expenseDocs' :
            f.id = e.id => f.userId = e.userId
       /\ \A e \in expenseDocs :
            (/\ request'.route \in {"getExpense", "putExpense",
                                    "deleteExpense"}
             /\ request'.id = e.id
             /\ request'.user # e.userId)
            => reply'.status = 404 /\ expenseDocs' = expenseDocs
       /\ request'.route \in {"listExpenses", "monthlyStats"}
            => /\ \A id \in reply'.ids :
                    \E e \in expenseDocs : e.id = id /\ e.userId = request'.user
               /\ request'.route = "monthlyStats"
                    => reply'.sum = SumAmounts({e \in expenseDocs :
                                                 e.id \in reply'.ids})]_vars

\* C24 happens: user B's update of the expense user A created has been
\* answered 404 and the expense is as A stored it.
C24_Witness ==
    /\ request = ExpenseRequest("putExpense", "B", 1, Num(3),
                                Date(2024, 2, "first"))
    /\ reply.status = 404
    /\ expenseDocs = {[id |-> 1, userId |-> "A", amount |-> 2,
                       date |-> Date(2024, 1, "first"), by |-> "A"]}

\* C27: when an expense is created, a user with no budget for the month
\* and year of its date gets no warning, and for a user with one the total
\* that is evaluated is the sum of the amounts of that user's stored
\* expenses dated in that calendar month plus the new amount, against the
\* amount of that budget.
C27_EvaluatorInput ==
    [][(request'.route = "createExpense" /\ reply'.status = 201)
       => LET u     == request'.user
              found == {b \in budgets : b.userId = u
                           /\ b.month = request'.month
                           /\ b.year = request'.year}
              month == {e \in expenseDocs : e.userId = u
                           /\ e.date.month = request'.month
                           /\ e.date.year = request'.year}
          IN  IF found = {}
              THEN ~reply'.evaluated /\ reply'.warning = NoWarning
              ELSE /\ reply'.evaluated
                   /\ reply'.total = SumAmounts(month) + request'.amount
                   /\ \E b \in found : reply'.ceiling = b.amount
                   /\ reply'.warning = BudgetWarning(SumAmounts(month),
                                           request'.amount, reply'.ceiling)]_vars
====
